---- MODULE Spec2Model ----
(***************************************************************************)
(* A model of tetris-tui-vanilla (src/src/main.rs): the rotation tables of *)
(* get_piece_position, the Block movements, the board operations of        *)
(* Tetris, the consumer loop of Tetris::play with its four state arms, the *)
(* gravity ticker, the input thread, the event channel and the shared      *)
(* state flag behind its mutex.                                            *)
(*                                                                         *)
(* Coordinates are usize in the source.  A coordinate that a subtraction   *)
(* takes below zero is kept here as the negative number with the same      *)
(* two's complement bit pattern (-1 stands for usize::MAX), and unsigned   *)
(* comparisons are written with UGe, so a wrapped value compares as the    *)
(* release build compares it.                                              *)
(*                                                                         *)
(* The grid of the source is 10 x 23 (main.rs:399-400).  COLS and ROWS are *)
(* bounds of this model: the same code is explored on a smaller grid, with *)
(* the spawn anchor of Block::new (row 4, column COLS / 2) kept.           *)
(***************************************************************************)
EXTENDS Integers, Sequences, FiniteSets, TLC

\* ---------------------------------------------------------------- bounds
COLS == 5
ROWS == 6
MaxPoints == 4
MaxQueue == 2
MaxAnchor == 5

\* ------------------------------------------------------ program constants
SpawnRow == 4

Pieces == <<"I", "J", "L", "O", "S", "T", "Z">>
Colors == <<"Red", "Blue", "Orange", "Yellow", "Green", "Violet", "Brown">>
PieceSet == {Pieces[i] : i \in 1..7}
Rotations == 0..3

KeyEvents == {"Down", "Left", "Right", "Rotate", "Quit", "Play", "Pause"}
GameEvents == {"Tick"} \cup KeyEvents
GameStates == {"Playing", "Pause", "Menu", "EndScreen"}

VARIABLES
    board,          \* Tetris.board: ROWS rows of COLS squares, row 0 first
    current_block,  \* Tetris.current_block
    next_block,     \* Tetris.next_block
    points,         \* Tetris.points
    state,          \* Tetris.state
    flag,           \* the GameState behind Arc<Mutex<..>> that the ticker reads
    mutex,          \* who holds that mutex: "free" or "ticker"
    ticker,         \* the ticker thread: "sleep" or "locked"
    queue,          \* the mpsc channel: events sent and not yet received
    consumer,       \* the loop of play(): "recv", "exited" or "panicked"
    event,          \* the event the consumer received last ("None" before any)
    from,           \* the arm (the value of self.state) that received it
    rng,            \* the (piece, color, rotation) draws the random generator makes in this run
    arg,            \* the arguments of a direct call of a pure function
    ret             \* the result of that call

session == <<board, current_block, next_block, points, state>>
threads == <<flag, mutex, ticker, queue>>
harness == <<arg, ret>>
vars == <<board, current_block, next_block, points, state, flag, mutex, ticker,
          queue, consumer, event, from, rng, arg, ret>>

\* ------------------------------------------------------------ coordinates
Coordinates(r, c) == [row |-> r, col |-> c]

\* a >= b on usize, for 0 <= b: a negative a is a wrapped, huge value
UGe(a, b) == a < 0 \/ a >= b

\* --------------------------------------------------------- rotation tables
\* The offsets (row, column) of the 4 cells from the anchor, as written in the
\* arms of get_piece_position.
Offsets(piece, pos) ==
    CASE piece = "I" /\ pos % 2 = 1 -> << <<0, 0>>, <<-1, 0>>, <<-2, 0>>, <<1, 0>> >>
      [] piece = "I" /\ pos % 2 = 0 -> << <<0, 0>>, <<0, 1>>, <<0, 2>>, <<0, -1>> >>
      [] piece = "J" /\ pos = 0 -> << <<0, 0>>, <<0, -1>>, <<0, 1>>, <<1, 1>> >>
      [] piece = "J" /\ pos = 1 -> << <<0, 0>>, <<-1, 0>>, <<1, 0>>, <<1, -1>> >>
      [] piece = "J" /\ pos = 2 -> << <<0, 0>>, <<0, 1>>, <<0, -1>>, <<-1, -1>> >>
      [] piece = "J" /\ pos = 3 -> << <<0, 0>>, <<-1, 0>>, <<-1, 1>>, <<1, 0>> >>
      [] piece = "L" /\ pos = 0 -> << <<0, 0>>, <<0, 1>>, <<0, -1>>, <<-1, 1>> >>
      [] piece = "L" /\ pos = 1 -> << <<0, 0>>, <<-1, 0>>, <<1, 0>>, <<1, 1>> >>
      [] piece = "L" /\ pos = 2 -> << <<0, 0>>, <<0, 1>>, <<0, -1>>, <<1, -1>> >>
      [] piece = "L" /\ pos = 3 -> << <<0, 0>>, <<1, 0>>, <<-1, 0>>, <<-1, -1>> >>
      [] piece = "T" /\ pos = 0 -> << <<0, 0>>, <<0, -1>>, <<0, 1>>, <<1, 0>> >>
      [] piece = "T" /\ pos = 1 -> << <<0, 0>>, <<1, 0>>, <<-1, 0>>, <<0, -1>> >>
      [] piece = "T" /\ pos = 2 -> << <<0, 0>>, <<0, 1>>, <<0, -1>>, <<-1, 0>> >>
      [] piece = "T" /\ pos = 3 -> << <<0, 0>>, <<-1, 0>>, <<1, 0>>, <<0, 1>> >>
      [] piece = "S" /\ pos % 2 = 1 -> << <<0, 0>>, <<-1, 0>>, <<0, 1>>, <<1, 1>> >>
      [] piece = "S" /\ pos % 2 = 0 -> << <<0, 0>>, <<0, -1>>, <<-1, 0>>, <<-1, 1>> >>
      [] piece = "Z" /\ pos % 2 = 1 -> << <<0, 0>>, <<1, 0>>, <<0, 1>>, <<-1, 1>> >>
      [] piece = "Z" /\ pos % 2 = 0 -> << <<0, 0>>, <<0, -1>>, <<1, 0>>, <<1, 1>> >>
      [] piece = "O" -> << <<0, 0>>, <<0, 1>>, <<-1, 0>>, <<-1, 1>> >>
      [] OTHER -> << >>

\* The match guards of get_piece_position: TRUE when some arm before the final
\* (_, _) => Err(()) takes (piece, pos, coor).
ArmMatches(piece, pos, coor) ==
    CASE piece = "I" -> (pos % 2 = 1 /\ coor.row > 1) \/ (pos % 2 = 0 /\ coor.col > 0)
      [] piece = "J" -> (pos \in {0, 1, 2} /\ coor.col > 0) \/ pos = 3
      [] piece = "L" -> (pos \in {0, 2} /\ coor.col > 0) \/ pos \in {1, 3}
      [] piece = "T" -> (pos \in {0, 1, 2} /\ coor.col > 0) \/ pos = 3
      [] piece = "S" -> pos % 2 = 1 \/ coor.col > 0
      [] piece = "Z" -> pos % 2 = 1 \/ coor.col > 0
      [] piece = "O" -> TRUE
      [] OTHER -> FALSE

\* get_piece_position with the anchor returned again as the fourth cell
get_piece_position_anchor_twice(piece, pos, coor) ==
    IF ArmMatches(piece, pos, coor)
    THEN LET off == Offsets(piece, pos)
             cells == [i \in 1..4 |->
                          IF i = 4 THEN coor
                          ELSE Coordinates(coor.row + off[i][1], coor.col + off[i][2])]
         IN  IF \E i \in 1..4 : cells[i].row < 0 \/ cells[i].col < 0
             THEN [tag |-> "Overflow", cells |-> cells]
             ELSE [tag |-> "Ok", cells |-> cells]
    ELSE [tag |-> "Err", cells |-> << >>]

\* get_piece_position.  tag "Ok": the 4 cells; tag "Err": Err(()); tag
\* "Overflow": an arm was taken and one of its subtractions went below zero,
\* which panics where overflow checks are on and wraps where they are off
\* (cells then holds the wrapped coordinates).
get_piece_position(piece, pos, coor) ==
    IF ArmMatches(piece, pos, coor)
    THEN LET off == Offsets(piece, pos)
             cells == [i \in 1..4 |->
                          Coordinates(coor.row + off[i][1], coor.col + off[i][2])]
         IN  IF \E i \in 1..4 : cells[i].row < 0 \/ cells[i].col < 0
             THEN [tag |-> "Overflow", cells |-> cells]
             ELSE [tag |-> "Ok", cells |-> cells]
    ELSE [tag |-> "Err", cells |-> << >>]

\* What a build can return for a call: an "Overflow" is a panic or the wrapped
\* cells, depending on the build's overflow checks.
Outcomes(r) ==
    IF r.tag = "Overflow"
    THEN {[tag |-> "Panic", cells |-> << >>], [tag |-> "Ok", cells |-> r.cells]}
    ELSE {r}

\* ------------------------------------------------------------------ Block
Block(position, color, piece, rotation_pos) ==
    [position |-> position, color |-> color, piece |-> piece,
     rotation_pos |-> rotation_pos]

\* Block::new with the anchor on row 0
BlockNewWithOnTopRow(piece, color, rotation_pos) ==
    LET coor == Coordinates(0, COLS \div 2)
    IN  {IF o.tag = "Ok"
         THEN [tag |-> "Ok", block |-> Block(o.cells, color, piece, rotation_pos)]
         ELSE [tag |-> "Panic", block |-> << >>]
         : o \in Outcomes(get_piece_position(piece, rotation_pos, coor))}

\* Block::new with the anchor on row 3
BlockNewWithOnRow3(piece, color, rotation_pos) ==
    LET coor == Coordinates(3, COLS \div 2)
    IN  {IF o.tag = "Ok"
         THEN [tag |-> "Ok", block |-> Block(o.cells, color, piece, rotation_pos)]
         ELSE [tag |-> "Panic", block |-> << >>]
         : o \in Outcomes(get_piece_position(piece, rotation_pos, coor))}

\* Block::new for one draw of the generator: .unwrap() panics on anything but Ok
BlockNewWith(piece, color, rotation_pos) ==
    LET coor == Coordinates(SpawnRow, COLS \div 2)
    IN  {IF o.tag = "Ok"
         THEN [tag |-> "Ok", block |-> Block(o.cells, color, piece, rotation_pos)]
         ELSE [tag |-> "Panic", block |-> << >>]
         : o \in Outcomes(get_piece_position(piece, rotation_pos, coor))}

\* Block::new over the draws the generator can make in this run
BlockNew(gen) ==
    UNION {BlockNewWith(g[1], g[2], g[3]) : g \in gen}

\* Block::down leaving the block where it is
BlockDownStays(b) == b

BlockDown(b) ==
    [b EXCEPT !.position = [i \in 1..4 |->
        Coordinates(b.position[i].row + 1, b.position[i].col)]]

BlockLeft(b) ==
    IF \A i \in 1..4 : b.position[i].col # 0
    THEN [b EXCEPT !.position = [i \in 1..4 |->
             Coordinates(b.position[i].row, b.position[i].col - 1)]]
    ELSE b

\* Block::right moving the first cell only
BlockRightFirstCellOnly(b) ==
    [b EXCEPT !.position[1] = Coordinates(b.position[1].row, b.position[1].col + 1)]

BlockRight(b) ==
    [b EXCEPT !.position = [i \in 1..4 |->
        Coordinates(b.position[i].row, b.position[i].col + 1)]]

\* Block::rotate with the index taken modulo 3
BlockRotateModulo3(b) ==
    LET rotation_pos == (b.rotation_pos + 1) % 3
    IN  {IF o.tag = "Panic" THEN [tag |-> "Panic", block |-> b]
         ELSE IF o.tag = "Ok"
         THEN [tag |-> "Ok",
               block |-> [b EXCEPT !.rotation_pos = rotation_pos, !.position = o.cells]]
         ELSE [tag |-> "Ok", block |-> b]
         : o \in Outcomes(get_piece_position(b.piece, rotation_pos, b.position[1]))}

\* Block::rotate with the index stored before the result is matched
BlockRotateKeepsIndexOnErr(b) ==
    LET rotation_pos == (b.rotation_pos + 1) % 4
    IN  {IF o.tag = "Panic" THEN [tag |-> "Panic", block |-> b]
         ELSE IF o.tag = "Ok"
         THEN [tag |-> "Ok",
               block |-> [b EXCEPT !.rotation_pos = rotation_pos, !.position = o.cells]]
         ELSE [tag |-> "Ok", block |-> [b EXCEPT !.rotation_pos = rotation_pos]]
         : o \in Outcomes(get_piece_position(b.piece, rotation_pos, b.position[1]))}

\* Block::rotate: the set of results a build can give
BlockRotate(b) ==
    LET rotation_pos == (b.rotation_pos + 1) % 4
    IN  {IF o.tag = "Panic" THEN [tag |-> "Panic", block |-> b]
         ELSE IF o.tag = "Ok"
         THEN [tag |-> "Ok",
               block |-> [b EXCEPT !.rotation_pos = rotation_pos, !.position = o.cells]]
         ELSE [tag |-> "Ok", block |-> b]
         : o \in Outcomes(get_piece_position(b.piece, rotation_pos, b.position[1]))}

\* ------------------------------------------------------------------ board
EmptyRow == [c \in 1..COLS |-> "Empty"]
EmptyBoard == [r \in 1..ROWS |-> EmptyRow]

InGrid(coor) == ~UGe(coor.row, ROWS) /\ ~UGe(coor.col, COLS)

\* Tetris::is_occupied; the index is in range at every call of the source
is_occupied(b, coor) == b[coor.row + 1][coor.col + 1] # "Empty"

\* is_collision without the is_occupied test
is_collision_bounds_only(b, block) ==
    \E i \in 1..4 :
        UGe(block.position[i].col, COLS) \/ UGe(block.position[i].row, ROWS)

\* Tetris::is_collision; || short-circuits before the board is indexed
is_collision(b, block) ==
    \E i \in 1..4 :
        \/ UGe(block.position[i].col, COLS)
        \/ UGe(block.position[i].row, ROWS)
        \/ is_occupied(b, block.position[i])

\* the Vec<Vec<Square>> b has an element at [coor.row][coor.col]
InBoard(b, coor) ==
    /\ coor.row + 1 \in 1..Len(b)
    /\ coor.col + 1 \in 1..Len(b[coor.row + 1])

\* the closure of is_collision with the board read before the two bounds tests
SquareCollidesReadsFirst(b, sq) ==
    IF ~InBoard(b, sq) THEN "Panic"
    ELSE IF is_occupied(b, sq) \/ UGe(sq.col, COLS) \/ UGe(sq.row, ROWS) THEN "true"
    ELSE "false"

\* The closure of is_collision for one cell, |sq| sq.col >= COLS || sq.row >=
\* ROWS || self.is_occupied(sq), with the index panic of self.board[..][..]
\* made explicit: "true", "false" or "Panic".
SquareCollides(b, sq) ==
    IF UGe(sq.col, COLS) \/ UGe(sq.row, ROWS) THEN "true"
    ELSE IF ~InBoard(b, sq) THEN "Panic"
    ELSE IF is_occupied(b, sq) THEN "true"
    ELSE "false"

\* Tetris::is_collision as a call: any() stops at the first cell whose closure
\* does not return false
is_collision_result(b, block) ==
    LET t == [i \in 1..4 |-> SquareCollides(b, block.position[i])]
        stops == {i \in 1..4 : t[i] # "false"}
    IN  IF stops = {} THEN "false"
        ELSE t[CHOOSE i \in stops : \A j \in stops : i <= j]

\* can_block_move without the is_occupied test
can_block_move_bounds_only(b, block, movement) ==
    \A i \in 1..4 :
        LET sq == block.position[i] IN
        CASE movement = "Down" -> ~UGe(sq.col, COLS) /\ ~UGe(sq.row + 1, ROWS)
          [] movement = "Right" -> ~UGe(sq.col + 1, COLS) /\ ~UGe(sq.row, ROWS)
          [] movement = "Left" ->
                 sq.col # 0 /\ ~UGe(sq.col - 1, COLS) /\ ~UGe(sq.row, ROWS)
          [] OTHER -> FALSE

\* Tetris::can_block_move
can_block_move(b, block, movement) ==
    \A i \in 1..4 :
        LET sq == block.position[i] IN
        CASE movement = "Down" ->
                 /\ ~UGe(sq.col, COLS) /\ ~UGe(sq.row + 1, ROWS)
                 /\ ~is_occupied(b, Coordinates(sq.row + 1, sq.col))
          [] movement = "Right" ->
                 /\ ~UGe(sq.col + 1, COLS) /\ ~UGe(sq.row, ROWS)
                 /\ ~is_occupied(b, Coordinates(sq.row, sq.col + 1))
          [] movement = "Left" ->
                 /\ sq.col # 0
                 /\ ~UGe(sq.col - 1, COLS) /\ ~UGe(sq.row, ROWS)
                 /\ ~is_occupied(b, Coordinates(sq.row, sq.col - 1))
          [] OTHER -> FALSE

\* Tetris::add_current_block; an index outside the board panics
add_current_block(b, block) ==
    IF \A i \in 1..4 : InGrid(block.position[i])
    THEN [tag |-> "Ok",
          board |-> [r \in 1..ROWS |-> [c \in 1..COLS |->
             IF \E i \in 1..4 : block.position[i] = Coordinates(r - 1, c - 1)
             THEN block.color ELSE b[r][c]]]]
    ELSE [tag |-> "Panic", board |-> b]

\* remove_lines_completed with the empty rows put after the kept rows
remove_lines_completed_at_bottom(b) ==
    LET HasEmpty(val) == \E c \in 1..Len(val) : val[c] = "Empty"
        kept == SelectSeq(b, HasEmpty)
        deleted == ROWS - Len(kept)
    IN  [board |-> IF deleted > 0 THEN kept \o [i \in 1..deleted |-> EmptyRow] ELSE kept,
         deleted |-> deleted]

\* remove_lines_completed adding one point for any number of removed rows
remove_lines_completed_one_point(b) ==
    LET HasEmpty(val) == \E c \in 1..Len(val) : val[c] = "Empty"
        kept == SelectSeq(b, HasEmpty)
        deleted == ROWS - Len(kept)
    IN  [board |-> IF deleted > 0 THEN [i \in 1..deleted |-> EmptyRow] \o kept ELSE kept,
         deleted |-> IF deleted > 0 THEN 1 ELSE 0]

\* Tetris::remove_lines_completed: retain the rows with an Empty square, put
\* as many empty rows in front as were dropped; deleted is added to the points
remove_lines_completed(b) ==
    LET HasEmpty(val) == \E c \in 1..Len(val) : val[c] = "Empty"
        kept == SelectSeq(b, HasEmpty)
        deleted == ROWS - Len(kept)
    IN  [board |-> IF deleted > 0 THEN [i \in 1..deleted |-> EmptyRow] \o kept ELSE kept,
         deleted |-> deleted]

\* is_end with skip(ROWS - 3): one more row looked at
is_end_skip_one_less(b) ==
    LET rev == [i \in 1..Len(b) |-> b[Len(b) + 1 - i]]
        rest == SubSeq(rev, (ROWS - 3) + 1, Len(rev))
    IN  \E i \in 1..Len(rest) : \E c \in 1..Len(rest[i]) : rest[i][c] # "Empty"

\* Tetris::is_end: board.iter().rev().skip(ROWS - 2).any(row has a non-Empty square)
is_end(b) ==
    LET rev == [i \in 1..Len(b) |-> b[Len(b) + 1 - i]]
        rest == SubSeq(rev, (ROWS - 2) + 1, Len(rev))
    IN  \E i \in 1..Len(rest) : \E c \in 1..Len(rest[i]) : rest[i][c] # "Empty"

\* --------------------------------------------------------------- consumer
\* The consumer loop of Tetris::play.  Each arm below is one iteration of the
\* loop for the event e that rx.recv() returned.  The drawing calls (execute!,
\* println!, draw_board, draw_menu) change none of the variables and are left
\* out.  A panic ends the loop with the session as it was before the event.
Panics == consumer' = "panicked" /\ UNCHANGED <<session, flag>>

Ignored == UNCHANGED <<session, flag, consumer>>

Quits == consumer' = "exited" /\ UNCHANGED <<session, flag>>

\* Tetris::tick, with the Err(()) of its two early returns turned into
\* self.state = EndScreen as the Playing arm does
tick ==
    IF ~can_block_move(board, current_block, "Down")
    THEN LET added == add_current_block(board, current_block)
             removed == remove_lines_completed(added.board)
         IN  IF added.tag = "Panic" THEN Panics
             ELSE /\ points + removed.deleted <= MaxPoints
                  /\ board' = removed.board
                  /\ points' = points + removed.deleted
                  /\ flag' = flag
                  /\ IF is_end(removed.board) \/ is_collision(removed.board, next_block)
                     THEN /\ state' = "EndScreen"
                          /\ consumer' = consumer
                          /\ UNCHANGED <<current_block, next_block>>
                     ELSE \E n \in BlockNew(rng) :
                             IF n.tag = "Ok"
                             THEN /\ current_block' = next_block
                                  /\ next_block' = n.block
                                  /\ state' = state
                                  /\ consumer' = consumer
                             ELSE /\ current_block' = next_block
                                  /\ consumer' = "panicked"
                                  /\ UNCHANGED <<next_block, state>>
    ELSE /\ current_block' = BlockDown(current_block)
         /\ UNCHANGED <<board, next_block, points, state, flag, consumer>>

\* block_down settling the block as tick does
block_down_settles == tick

\* Tetris::block_down
block_down ==
    /\ current_block' = IF can_block_move(board, current_block, "Down")
                        THEN BlockDown(current_block) ELSE current_block
    /\ UNCHANGED <<board, next_block, points, state, flag, consumer>>

\* Tetris::block_left
block_left ==
    /\ current_block' = IF can_block_move(board, current_block, "Left")
                        THEN BlockLeft(current_block) ELSE current_block
    /\ UNCHANGED <<board, next_block, points, state, flag, consumer>>

\* block_right without the can_block_move test
block_right_unchecked ==
    /\ current_block' = BlockRight(current_block)
    /\ UNCHANGED <<board, next_block, points, state, flag, consumer>>

\* Tetris::block_right
block_right ==
    /\ current_block' = IF can_block_move(board, current_block, "Right")
                        THEN BlockRight(current_block) ELSE current_block
    /\ UNCHANGED <<board, next_block, points, state, flag, consumer>>

\* block_rotate without the is_collision test on the rotated clone
block_rotate_unchecked ==
    \E o \in BlockRotate(current_block) :
        IF o.tag = "Panic" THEN Panics
        ELSE /\ current_block' = o.block
             /\ UNCHANGED <<board, next_block, points, state, flag, consumer>>

\* Tetris::block_rotate
block_rotate ==
    \E o \in BlockRotate(current_block) :
        IF o.tag = "Panic" THEN Panics
        ELSE /\ current_block' = IF ~is_collision(board, o.block)
                                 THEN o.block ELSE current_block
             /\ UNCHANGED <<board, next_block, points, state, flag, consumer>>

\* Tetris::start
start ==
    \E n \in BlockNew(rng) :
        IF n.tag = "Ok"
        THEN current_block' = n.block /\ consumer' = consumer
        ELSE current_block' = current_block /\ consumer' = "panicked"

\* GameState::Menu => match rx.recv()
MenuArm(e) ==
    CASE e = "Play" ->
             /\ mutex = "free"
             /\ flag' = "Playing"
             /\ state' = "Playing"
             /\ start
             /\ UNCHANGED <<board, next_block, points>>
      [] e = "Quit" -> Quits
      [] OTHER -> Ignored

\* GameState::Playing => match rx.recv()
PlayingArm(e) ==
    CASE e = "Quit" -> Quits
      [] e = "Left" -> block_left
      [] e = "Right" -> block_right
      [] e = "Down" -> block_down
      [] e = "Rotate" -> block_rotate
      [] e = "Play" -> Ignored
      [] e = "Pause" ->
             /\ mutex = "free"
             /\ flag' = "Pause"
             /\ state' = "Pause"
             /\ UNCHANGED <<board, current_block, next_block, points, consumer>>
      [] e = "Tick" -> tick

\* PauseArm with the Pause key ignored like any other key
PauseArmStaysPaused(e) ==
    CASE e = "Quit" -> Quits
      [] OTHER -> Ignored

\* PauseArm with the Down key handled as the Playing arm handles it
PauseArmMovesDown(e) ==
    CASE e = "Quit" -> Quits
      [] e = "Down" -> block_down
      [] e = "Pause" ->
             /\ mutex = "free"
             /\ flag' = "Playing"
             /\ state' = "Playing"
             /\ UNCHANGED <<board, current_block, next_block, points, consumer>>
      [] OTHER -> Ignored

\* GameState::Pause => match rx.recv()
PauseArm(e) ==
    CASE e = "Quit" -> Quits
      [] e = "Pause" ->
             /\ mutex = "free"
             /\ flag' = "Playing"
             /\ state' = "Playing"
             /\ UNCHANGED <<board, current_block, next_block, points, consumer>>
      [] OTHER -> Ignored

\* EndScreenArm without *self = Tetris::new(): Play restarts as the Menu arm does
EndScreenArmNoReset(e) ==
    CASE e = "Quit" -> Quits
      [] e = "Play" ->
             /\ mutex = "free"
             /\ flag' = "Playing"
             /\ state' = "Playing"
             /\ start
             /\ UNCHANGED <<board, next_block, points>>
      [] OTHER -> Ignored

\* GameState::EndScreen => match rx.recv(); *self = Tetris::new() draws a
\* current and a next block, start() then draws the current block again
EndScreenArm(e) ==
    CASE e = "Quit" -> Quits
      [] e = "Play" ->
             /\ mutex = "free"
             /\ \E c \in BlockNew(rng), n \in BlockNew(rng) :
                    IF c.tag = "Ok" /\ n.tag = "Ok"
                    THEN /\ board' = EmptyBoard
                         /\ next_block' = n.block
                         /\ points' = 0
                         /\ flag' = "Playing"
                         /\ state' = "Playing"
                         /\ start
                    ELSE /\ consumer' = "panicked"
                         /\ UNCHANGED <<session, flag>>
      [] OTHER -> Ignored

\* one iteration of the loop: match self.state { ... } on the event e
Arm(e) ==
    CASE state = "Menu" -> MenuArm(e)
      [] state = "Playing" -> PlayingArm(e)
      [] state = "Pause" -> PauseArm(e)
      [] state = "EndScreen" -> EndScreenArm(e)

\* rx.recv() returns e and the arm for self.state handles it
Handle(e) ==
    /\ consumer = "recv"
    /\ Arm(e)
    /\ event' = e
    /\ from' = state
    /\ UNCHANGED <<mutex, ticker, rng, harness>>

\* ----------------------------------------------------------- initial state
NoArg == [piece |-> "I", pos |-> 0, coor |-> Coordinates(0, 0)]
NoRet == [tag |-> "None", cells |-> << >>]

OkBlocks(gen) == {n.block : n \in {m \in BlockNew(gen) : m.tag = "Ok"}}

\* Tetris::new() followed by the first lines of play(): the flag starts as
\* GameState::Playing while self.state is Menu
InitWith(gen) ==
    /\ rng = gen
    /\ board = EmptyBoard
    /\ current_block \in OkBlocks(gen)
    /\ next_block \in OkBlocks(gen)
    /\ points = 0
    /\ state = "Menu"
    /\ flag = "Playing"
    /\ mutex = "free"
    /\ ticker = "sleep"
    /\ queue = << >>
    /\ consumer = "recv"
    /\ event = "None"
    /\ from = "None"
    /\ arg = NoArg
    /\ ret = NoRet

\* ------------------------------------------ the consumer on any event order
\* Every finite sequence of events is a possible content of the channel (the
\* flag starts as Playing, so Ticks can precede and follow any key), so the
\* consumer alone is explored with rx.recv() returning any event.
\* In one run the generator repeats one draw (piece, colour, rotation index);
\* the runs together cover the 7 pieces, the 7 colours and the 4 indices.
Generators == {{<<Pieces[i], Colors[i], i % 4>>} : i \in 1..7}

Init == \E gen \in Generators : InitWith(gen)

RecvMenu == \E e \in GameEvents : state = "Menu" /\ Handle(e) /\ UNCHANGED queue
RecvPlaying == \E e \in GameEvents : state = "Playing" /\ Handle(e) /\ UNCHANGED queue
RecvPause == \E e \in GameEvents : state = "Pause" /\ Handle(e) /\ UNCHANGED queue
RecvEndScreen == \E e \in GameEvents : state = "EndScreen" /\ Handle(e) /\ UNCHANGED queue

Next == RecvMenu \/ RecvPlaying \/ RecvPause \/ RecvEndScreen

Spec == Init /\ [][Next]_vars

\* ---------------------------------------------------------------- threads
\* The three threads of Tetris::play around the channel.  The process ends
\* when the consumer leaves its loop, so no thread steps after that.  The
\* channel is unbounded in the source; MaxQueue bounds it here, with one place
\* kept for the Tick of a ticker that already holds the mutex.

\* ticker: thread::sleep is over and state.lock() succeeds
TickerLock ==
    /\ consumer = "recv"
    /\ ticker = "sleep"
    /\ mutex = "free"
    /\ Len(queue) < MaxQueue
    /\ ticker' = "locked"
    /\ mutex' = "ticker"
    /\ UNCHANGED <<session, flag, queue, consumer, event, from, rng, harness>>

\* ticker sending a Tick whatever the flag is
TickerSendUnchecked ==
    /\ consumer = "recv"
    /\ ticker = "locked"
    /\ queue' = Append(queue, "Tick")
    /\ ticker' = "sleep"
    /\ mutex' = "free"
    /\ UNCHANGED <<session, flag, consumer, event, from, rng, harness>>

\* ticker: *game_state == Playing, tx.send(Tick), the guard is dropped
TickerSend ==
    /\ consumer = "recv"
    /\ ticker = "locked"
    /\ flag = "Playing"
    /\ queue' = Append(queue, "Tick")
    /\ ticker' = "sleep"
    /\ mutex' = "free"
    /\ UNCHANGED <<session, flag, consumer, event, from, rng, harness>>

\* ticker going back to sleep with the guard kept when the flag is not Playing
TickerSkipKeepsGuard ==
    /\ consumer = "recv"
    /\ ticker = "locked"
    /\ flag # "Playing"
    /\ ticker' = "sleep"
    /\ UNCHANGED <<session, flag, mutex, queue, consumer, event, from, rng, harness>>

\* ticker: *game_state is not Playing, the guard is dropped
TickerSkip ==
    /\ consumer = "recv"
    /\ ticker = "locked"
    /\ flag # "Playing"
    /\ ticker' = "sleep"
    /\ mutex' = "free"
    /\ UNCHANGED <<session, flag, queue, consumer, event, from, rng, harness>>

\* input thread: get_input returned Some(k), tx.send(Key(k))
InputSend ==
    \E k \in KeyEvents :
        /\ consumer = "recv"
        /\ Len(queue) + (IF ticker = "locked" THEN 1 ELSE 0) < MaxQueue
        /\ queue' = Append(queue, k)
        /\ UNCHANGED <<session, flag, mutex, ticker, consumer, event, from, rng, harness>>

\* consumer: rx.recv() returns the first event of the channel
Consume ==
    /\ queue # << >>
    /\ Handle(Head(queue))
    /\ queue' = Tail(queue)

ConsumeMenu == state = "Menu" /\ Consume
ConsumePlaying == state = "Playing" /\ Consume
ConsumePause == state = "Pause" /\ Consume
ConsumeEndScreen == state = "EndScreen" /\ Consume

\* The threads are explored with one draw of the generator: a Z block in
\* rotation 3, the draw with the fewest reachable sessions.
ThreadsGenerator == {<<"Z", "Brown", 3>>}

InitThreads == InitWith(ThreadsGenerator)

NextThreads ==
    \/ TickerLock \/ TickerSend \/ TickerSkip \/ InputSend
    \/ ConsumeMenu \/ ConsumePlaying \/ ConsumePause \/ ConsumeEndScreen

SpecThreads == InitThreads /\ [][NextThreads]_vars

\* ------------------------------------------------ threads and the mutex
\* The three threads with the keys that lead to state.lock() in the consumer
\* (Play, Pause) and Quit, under the scheduling of the source: a ticker that
\* holds the guard goes on to its test and its send, which waits for nothing
\* (WF); its sleep ends and lock() returns when the mutex is free, and
\* rx.recv() returns when the channel holds an event and the arm's lock()
\* returns when the ticker, which sleeps a second after each release, has
\* dropped the guard (SF: the room in the bounded channel and the mutex come
\* and go).  The input thread may send any keys or none.
ControlKeys == {"Play", "Pause", "Quit"}

\* input thread: get_input returned Some(k) for a key in ControlKeys
InputSendControl ==
    \E k \in ControlKeys :
        /\ consumer = "recv"
        /\ Len(queue) + (IF ticker = "locked" THEN 1 ELSE 0) < MaxQueue
        /\ queue' = Append(queue, k)
        /\ UNCHANGED <<session, flag, mutex, ticker, consumer, event, from, rng, harness>>

NextLocks ==
    \/ TickerLock \/ TickerSend \/ TickerSkip \/ InputSendControl
    \/ ConsumeMenu \/ ConsumePlaying \/ ConsumePause \/ ConsumeEndScreen

SpecLocks ==
    /\ InitThreads
    /\ [][NextLocks]_vars
    /\ WF_vars(TickerSend \/ TickerSkip)
    /\ SF_vars(TickerLock)
    /\ SF_vars(Consume)

\* ------------------------------------------------- direct calls: the board
\* remove_lines_completed and is_end called on boards of ROWS rows, each row
\* empty, complete, occupied in the spawn column only, or occupied everywhere
\* but in the last column.
RowKinds ==
    {EmptyRow,
     [c \in 1..COLS |-> "Red"],
     [c \in 1..COLS |-> IF c - 1 = COLS \div 2 THEN "Orange" ELSE "Empty"],
     [c \in 1..COLS |-> IF c < COLS THEN "Green" ELSE "Empty"]}

InitBoards ==
    /\ rng = ThreadsGenerator
    /\ board \in [1..ROWS -> RowKinds]
    /\ current_block \in OkBlocks(ThreadsGenerator)
    /\ next_block \in OkBlocks(ThreadsGenerator)
    /\ points \in {0, 1}
    /\ state = "Playing"
    /\ flag = "Playing"
    /\ mutex = "free"
    /\ ticker = "sleep"
    /\ queue = << >>
    /\ consumer = "recv"
    /\ event = "None"
    /\ from = "None"
    /\ arg = NoArg
    /\ ret = NoRet

\* self.remove_lines_completed()
CallRemoveLinesCompleted ==
    /\ ret.tag = "None"
    /\ LET removed == remove_lines_completed(board)
       IN  /\ board' = removed.board
           /\ points' = points + removed.deleted
    /\ ret' = [tag |-> "removed", cells |-> << >>]
    /\ UNCHANGED <<current_block, next_block, state, threads, consumer, event, from,
                   rng, arg>>

\* self.is_end()
CallIsEnd ==
    /\ ret.tag \in {"None", "removed"}
    /\ ret' = [tag |-> IF is_end(board) THEN "true" ELSE "false", cells |-> << >>]
    /\ UNCHANGED <<session, threads, consumer, event, from, rng, arg>>

NextBoards == CallRemoveLinesCompleted \/ CallIsEnd

SpecBoards == InitBoards /\ [][NextBoards]_vars

\* -------------------------------------------- direct calls: the rotation table
\* get_piece_position called on every piece, rotation index and anchor with
\* row and column up to MaxAnchor.
InitPieces ==
    /\ rng = ThreadsGenerator
    /\ board = EmptyBoard
    /\ current_block \in OkBlocks(ThreadsGenerator)
    /\ next_block \in OkBlocks(ThreadsGenerator)
    /\ points = 0
    /\ state = "Menu"
    /\ flag = "Playing"
    /\ mutex = "free"
    /\ ticker = "sleep"
    /\ queue = << >>
    /\ consumer = "recv"
    /\ event = "None"
    /\ from = "None"
    /\ arg \in {[piece |-> p, pos |-> r, coor |-> Coordinates(row, col)] :
                   p \in PieceSet, r \in Rotations,
                   row \in 0..MaxAnchor, col \in 0..MaxAnchor}
    /\ ret = NoRet

\* get_piece_position(piece, pos, coor)
CallGetPiecePosition ==
    /\ ret.tag = "None"
    /\ ret' \in Outcomes(get_piece_position(arg.piece, arg.pos, arg.coor))
    /\ UNCHANGED <<session, threads, consumer, event, from, rng, arg>>

NextPieces == CallGetPiecePosition

SpecPieces == InitPieces /\ [][NextPieces]_vars

\* ------------------------------------------- direct calls: is_collision
\* is_collision called on the 4 cells that get_piece_position returned for any
\* piece, rotation index and anchor (wrapped cells included), on a board whose
\* rows from some row down are occupied everywhere but in the last column.
CollisionBoards ==
    {[r \in 1..ROWS |-> [c \in 1..COLS |->
         IF r > k /\ c < COLS THEN "Green" ELSE "Empty"]] : k \in 0..ROWS}

InitCollision ==
    /\ rng = ThreadsGenerator
    /\ board \in CollisionBoards
    /\ current_block \in OkBlocks(ThreadsGenerator)
    /\ next_block \in OkBlocks(ThreadsGenerator)
    /\ points = 0
    /\ state = "Playing"
    /\ flag = "Playing"
    /\ mutex = "free"
    /\ ticker = "sleep"
    /\ queue = << >>
    /\ consumer = "recv"
    /\ event = "None"
    /\ from = "None"
    /\ arg \in {[piece |-> p, pos |-> r, coor |-> Coordinates(row, col)] :
                   p \in PieceSet, r \in Rotations,
                   row \in 0..MaxAnchor, col \in 0..MaxAnchor}
    /\ ret = NoRet

\* self.is_collision(&block) for the block with the cells just computed
CallIsCollision ==
    /\ ret.tag = "Ok"
    /\ ret' = [tag |-> is_collision_result(board,
                           Block(ret.cells, "Green", arg.piece, arg.pos)),
               cells |-> ret.cells]
    /\ UNCHANGED <<session, threads, consumer, event, from, rng, arg>>

NextCollision == CallGetPiecePosition \/ CallIsCollision

SpecCollision == InitCollision /\ [][NextCollision]_vars

\* ------------------------------------------------ direct calls: the Block
\* Block::new for every draw of piece, colour and rotation index, then any
\* sequence of Block::down, left, right and rotate on the block, with no board
\* in the way; the anchor is kept within row and column MaxAnchor.  ret holds
\* the last call (tag), and the block as it was before the rotate calls made
\* in a row (cells, pos), with their number (n).
ColorSet == {Colors[i] : i \in 1..7}

InitBlocks ==
    /\ rng = ThreadsGenerator
    /\ board = EmptyBoard
    /\ current_block \in OkBlocks(ThreadsGenerator)
    /\ next_block \in OkBlocks(ThreadsGenerator)
    /\ points = 0
    /\ state = "Menu"
    /\ flag = "Playing"
    /\ mutex = "free"
    /\ ticker = "sleep"
    /\ queue = << >>
    /\ consumer = "recv"
    /\ event = "None"
    /\ from = "None"
    /\ arg \in {[piece |-> p, pos |-> r, coor |-> Coordinates(SpawnRow, COLS \div 2),
                 color |-> c] : p \in PieceSet, r \in Rotations, c \in ColorSet}
    /\ ret = NoRet

BlockCalls == {"new", "down", "left", "right", "rotate"}

Called(name, block) ==
    [tag |-> name, cells |-> block.position, pos |-> block.rotation_pos, n |-> 0]

\* Block::new() with the draw arg
CallBlockNew ==
    /\ ret.tag = "None"
    /\ \E n \in BlockNewWith(arg.piece, arg.color, arg.pos) :
           IF n.tag = "Ok"
           THEN current_block' = n.block /\ ret' = Called("new", n.block)
           ELSE current_block' = current_block /\ ret' = [tag |-> "Panic", cells |-> << >>]
    /\ UNCHANGED <<board, next_block, points, state, threads, consumer, event, from,
                   rng, arg>>

\* block.down()
CallBlockDown ==
    /\ ret.tag \in BlockCalls
    /\ current_block.position[1].row < MaxAnchor
    /\ current_block' = BlockDown(current_block)
    /\ ret' = Called("down", current_block')
    /\ UNCHANGED <<board, next_block, points, state, threads, consumer, event, from,
                   rng, arg>>

\* block.left()
CallBlockLeft ==
    /\ ret.tag \in BlockCalls
    /\ current_block' = BlockLeft(current_block)
    /\ ret' = Called("left", current_block')
    /\ UNCHANGED <<board, next_block, points, state, threads, consumer, event, from,
                   rng, arg>>

\* block.right()
CallBlockRight ==
    /\ ret.tag \in BlockCalls
    /\ current_block.position[1].col < MaxAnchor
    /\ current_block' = BlockRight(current_block)
    /\ ret' = Called("right", current_block')
    /\ UNCHANGED <<board, next_block, points, state, threads, consumer, event, from,
                   rng, arg>>

\* block.rotate(); the fifth call in a row starts a new count
CallBlockRotate ==
    /\ ret.tag \in BlockCalls
    /\ \E o \in BlockRotate(current_block) :
           IF o.tag = "Panic"
           THEN current_block' = current_block /\ ret' = [tag |-> "Panic", cells |-> << >>]
           ELSE /\ current_block' = o.block
                /\ ret' = IF ret.n < 4
                          THEN [ret EXCEPT !.tag = "rotate", !.n = ret.n + 1]
                          ELSE [Called("rotate", current_block) EXCEPT !.n = 1]
    /\ UNCHANGED <<board, next_block, points, state, threads, consumer, event, from,
                   rng, arg>>

NextBlocks ==
    CallBlockNew \/ CallBlockDown \/ CallBlockLeft \/ CallBlockRight \/ CallBlockRotate

SpecBlocks == InitBlocks /\ [][NextBlocks]_vars

\* ----------------------------- the consumer, with the Ticks of a block counted
\* The consumer on any event order, as in Spec, with ret counting the Ticks
\* that the Playing arm handled for the current block without locking it: the
\* else branch of tick adds one, the lock branch and a spawn by a Play key
\* start from 0.
TicksOf(r) == IF r.tag = "ticks" THEN r.n ELSE 0

Ticks(n) == [tag |-> "ticks", cells |-> << >>, n |-> n]

Counted(e) ==
    /\ consumer = "recv"
    /\ Arm(e)
    /\ event' = e
    /\ from' = state
    /\ ret' = IF state \in {"Menu", "EndScreen"} /\ e = "Play" THEN Ticks(0)
              ELSE IF state = "Playing" /\ e = "Tick"
              THEN IF can_block_move(board, current_block, "Down")
                   THEN Ticks(TicksOf(ret) + 1) ELSE Ticks(0)
              ELSE ret
    /\ UNCHANGED <<mutex, ticker, queue, rng, arg>>

CountMenu == \E e \in GameEvents : state = "Menu" /\ Counted(e)
CountPlaying == \E e \in GameEvents : state = "Playing" /\ Counted(e)
CountPause == \E e \in GameEvents : state = "Pause" /\ Counted(e)
CountEndScreen == \E e \in GameEvents : state = "EndScreen" /\ Counted(e)

NextTicks == CountMenu \/ CountPlaying \/ CountPause \/ CountEndScreen

\* The runs with the I, O, T and Z draws of Generators: the two blocks of 4
\* rows and of 2 rows at the spawn, and two blocks of 3 rows.
TicksGenerators == {{<<Pieces[i], Colors[i], i % 4>>} : i \in {1, 4, 6, 7}}

InitTicks == \E gen \in TicksGenerators : InitWith(gen)

SpecTicks == InitTicks /\ [][NextTicks]_vars

\* ------------------------------------------------------------------ claims
\* Every step of Spec is one iteration of the consumer loop: event' is the
\* event it received and state, unprimed, is the arm that handled it.

MovementEvents == {"Tick", "Down", "Left", "Right", "Rotate"}

\* the square at (r, c) of board b holds a colour
Occupied(b, r, c) == b[r + 1][c + 1] # "Empty"

\* block blk cannot go one row down on board b: a cell is on the last row or
\* has an occupied square under it
Lands(b, blk) ==
    \E i \in 1..4 :
        \/ blk.position[i].row + 1 >= ROWS
        \/ Occupied(b, blk.position[i].row + 1, blk.position[i].col)

Transitions ==
    {<<"Menu", "Play", "Playing">>, <<"Playing", "Pause", "Pause">>,
     <<"Pause", "Pause", "Playing">>, <<"Playing", "Tick", "EndScreen">>,
     <<"EndScreen", "Play", "Playing">>}

\* C1: the state tag changes only along Menu -Play-> Playing, Playing -Pause->
\* Pause, Pause -Pause-> Playing, Playing -Tick that locks-> EndScreen and
\* EndScreen -Play-> Playing; the four key transitions are always taken; a Quit
\* key in any state ends the loop, and nothing else does; every other (state,
\* event) pair leaves the tag unchanged.
C1_Step ==
    /\ state' # state => <<state, event', state'>> \in Transitions
    /\ state' = "EndScreen" /\ state # "EndScreen" => Lands(board, current_block)
    /\ \A t \in Transitions : t[2] # "Tick" /\ state = t[1] /\ event' = t[2]
                                 => state' = t[3]
    /\ event' = "Quit" => consumer' = "exited" /\ state' = state
    /\ consumer' # consumer => event' = "Quit"

C1_StateTransitions == [][C1_Step]_vars

\* C1 witness: the loop was left by Quit from EndScreen, so the run went Menu,
\* Playing, EndScreen
C1_Witness == consumer = "exited" /\ from = "EndScreen" /\ event = "Quit"

\* C2: in Menu, Pause and EndScreen a Tick or a movement key leaves board,
\* current block, next block, points and state unchanged.
C2_Step ==
    state \in {"Menu", "Pause", "EndScreen"} /\ event' \in MovementEvents
        => UNCHANGED <<board, current_block, next_block, points, state>>

C2_IgnoredOutsidePlaying == [][C2_Step]_vars

\* C2 witness: a Down key was received in Pause while the block had room to go
\* down
C2_Witness ==
    /\ state = "Pause" /\ from = "Pause" /\ event = "Down"
    /\ ~Lands(board, current_block)

\* block blk with every cell moved by (dr, dc)
Shift(blk, dr, dc) ==
    [blk EXCEPT !.position = [i \in 1..4 |->
        Coordinates(blk.position[i].row + dr, blk.position[i].col + dc)]]

\* block blk has a cell outside the grid or on an occupied square of board b
Collides(b, blk) ==
    \E i \in 1..4 :
        \/ blk.position[i].col < 0 \/ blk.position[i].col >= COLS
        \/ blk.position[i].row < 0 \/ blk.position[i].row >= ROWS
        \/ Occupied(b, blk.position[i].row, blk.position[i].col)

\* board b with the 4 cells of blk holding the colour of blk
Locked(b, blk) ==
    [r \in 1..ROWS |-> [c \in 1..COLS |->
        IF \E i \in 1..4 : blk.position[i].row = r - 1 /\ blk.position[i].col = c - 1
        THEN blk.color ELSE b[r][c]]]

Complete(row) == \A c \in 1..COLS : row[c] # "Empty"
CompleteRows(b) == {r \in 1..Len(b) : Complete(b[r])}

\* board b without its complete rows: the other rows in their order at the
\* bottom, under as many empty rows as there were complete rows
Cleared(b) ==
    LET k == Cardinality(CompleteRows(b))
        \* the index in b of the j-th row that is not complete
        Nth(j) == CHOOSE r \in 1..ROWS :
                      /\ ~Complete(b[r])
                      /\ Cardinality({q \in 1..r : ~Complete(b[q])}) = j
    IN  [r \in 1..ROWS |-> IF r <= k THEN [c \in 1..COLS |-> "Empty"] ELSE b[Nth(r - k)]]

\* the tentative block of the move contract for a key
Tentative(key, blk) ==
    CASE key = "Down" -> Shift(blk, 1, 0)
      [] key = "Right" -> Shift(blk, 0, 1)
      [] key = "Left" -> IF \A i \in 1..4 : blk.position[i].col > 0
                         THEN Shift(blk, 0, -1) ELSE blk
      [] key = "Rotate" ->
             LET pos == (blk.rotation_pos + 1) % 4
                 got == get_piece_position(blk.piece, pos, blk.position[1])
             IN  IF got.tag = "Ok"
                 THEN [blk EXCEPT !.rotation_pos = pos, !.position = got.cells]
                 ELSE blk

\* C4: from EndScreen a Play key yields a board with every cell Empty, 0 points
\* and state Playing, whatever the board and the points were.
C4_Step ==
    state = "EndScreen" /\ event' = "Play"
        => /\ \A r \in 0..(ROWS - 1), c \in 0..(COLS - 1) : ~Occupied(board', r, c)
           /\ Len(board') = ROWS
           /\ points' = 0
           /\ state' = "Playing"

C4_RestartResets == [][C4_Step]_vars

\* C4 witness: Play was received in EndScreen and the game is on again
C4_Witness == state = "Playing" /\ from = "EndScreen" /\ event = "Play"

\* the settling of the current block: its cells are locked into the board, the
\* complete rows are cleared, and unless the game is over the next block is the
\* current one
Settles ==
    /\ board' = Cleared(Locked(board, current_block))
    /\ state' \in {"Playing", "EndScreen"}
    /\ state' = "Playing" => current_block' = next_block

\* C5 as stated: in Playing a Down key whose one-row-down position collides
\* settles the block just as a Tick does.
C5_StepStated ==
    state = "Playing" /\ event' \in {"Down", "Tick"} /\ Lands(board, current_block)
        => Settles

C5_DownKeySettles == [][C5_StepStated]_vars

\* C5 as amended: in Playing a Tick whose one-row-down position collides
\* settles the block; a Down key in the same position changes nothing of the
\* session, the block stays unlocked.
C5_Step ==
    state = "Playing" /\ Lands(board, current_block)
        => /\ event' = "Tick" => Settles
           /\ event' = "Down" => UNCHANGED <<board, current_block, next_block, points, state>>

C5_TickSettlesDownKeyWaits == [][C5_Step]_vars

\* C5 witness: a Down key was received for a block that cannot go down and is
\* still on its spawn row, so the key did not move it
C5_Witness ==
    /\ state = "Playing" /\ from = "Playing" /\ event = "Down"
    /\ current_block.position[1].row = SpawnRow
    /\ Lands(board, current_block)

\* C6: in Playing a Left, Right or Rotate key whose tentative block collides
\* changes nothing of the session; otherwise the current block becomes the
\* tentative block and nothing else changes.
C6_Step ==
    state = "Playing" /\ event' \in {"Left", "Right", "Rotate"}
        => LET t == Tentative(event', current_block)
           IN  /\ current_block' = IF Collides(board, t) THEN current_block ELSE t
               /\ UNCHANGED <<board, next_block, points, state>>

C6_MoveCommitOrDiscard == [][C6_Step]_vars

\* C6 witness: a Right key was received for a block with an occupied square to
\* its right and no free place to its left, so the key was discarded
C6_Witness ==
    /\ state = "Playing" /\ from = "Playing" /\ event = "Right"
    /\ \E i \in 1..4 :
           /\ current_block.position[i].col + 1 < COLS
           /\ Occupied(board, current_block.position[i].row,
                       current_block.position[i].col + 1)
    /\ Collides(board, Shift(current_block, 0, -1))

\* C7: a Tick in Playing that locks the block ends the game when the next
\* block collides with the locked and cleared board, and otherwise keeps
\* Playing with the next block as current block and a newly spawned next
\* block; a Tick that does not lock moves the current block one row down and
\* leaves board, next block and points unchanged.
C7_Step ==
    state = "Playing" /\ event' = "Tick"
        => IF Lands(board, current_block)
           THEN IF Collides(Cleared(Locked(board, current_block)), next_block)
                THEN state' = "EndScreen"
                ELSE /\ state' = "Playing"
                     /\ current_block' = next_block
                     /\ next_block' \in OkBlocks(rng)
           ELSE /\ current_block' = Shift(current_block, 1, 0)
                /\ UNCHANGED <<board, next_block, points>>

C7_TickLocksOrFalls == [][C7_Step]_vars

\* C7 witness: a Tick ended a game in which no line was ever cleared
C7_Witness ==
    state = "EndScreen" /\ from = "Playing" /\ event = "Tick" /\ points = 0

\* the ticker's send: a Tick is appended to the channel
TickSent == queue' = Append(queue, "Tick")

\* C3: the ticker appends a Tick to the channel only while the consumer's state
\* is Playing, never in Menu, Pause or EndScreen.
C3_Step == TickSent => state = "Playing"

C3_TickOnlyWhilePlaying == [][C3_Step]_vars

\* some square of rows lo..hi of board b holds a colour
OccupiedInRows(b, lo, hi) ==
    \E r \in lo..hi, c \in 0..(COLS - 1) : Occupied(b, r, c)

\* C8 as stated: is_end is true exactly when a square of rows 0 through 2 is
\* occupied.
C8_IsEndRows0To2 ==
    ret.tag \in {"true", "false"} => (ret.tag = "true" <=> OccupiedInRows(board, 0, 2))

\* C8 as amended: is_end is true exactly when a square of rows 0 through 1 is
\* occupied; a board whose only occupied rows are row 2 and below is not
\* reported as game over.
C8_IsEndRows0To1 ==
    ret.tag \in {"true", "false"} => (ret.tag = "true" <=> OccupiedInRows(board, 0, 1))

\* C8 witness: is_end was called on a board with rows 0 and 1 empty and row 2
\* occupied, and returned false
C8_Witness ==
    /\ ret.tag = "false"
    /\ OccupiedInRows(board, 2, 2)
    /\ ~OccupiedInRows(board, 0, 1)

\* C9: after remove_lines_completed no row is complete, the board has ROWS
\* rows, the rows that were not complete are at the bottom in their order under
\* as many empty rows as there were complete rows, and the points grew by the
\* number of complete rows.
C9_Step ==
    ret'.tag = "removed"
        => LET k == Cardinality(CompleteRows(board))
               keptBefore == {r \in 1..ROWS : ~Complete(board[r])}
           IN  /\ CompleteRows(board') = {}
               /\ Len(board') = ROWS
               /\ \A r \in 1..k : \A c \in 1..COLS : board'[r][c] = "Empty"
               /\ \A r \in keptBefore :
                      board'[k + Cardinality({q \in keptBefore : q <= r})] = board[r]
               /\ board' = Cleared(board)
               /\ points' = points + k

C9_ClearKeepsOrderAndCounts == [][C9_Step]_vars

\* C9 witness: one call removed at least two rows and left an occupied row
C9_Witness ==
    ret.tag = "removed" /\ points >= 3 /\ OccupiedInRows(board, 0, ROWS - 1)

\* some offset of the table takes the anchor of call a below row 0 or column 0
BelowZero(a) ==
    \E i \in 1..4 :
        \/ a.coor.row + Offsets(a.piece, a.pos)[i][1] < 0
        \/ a.coor.col + Offsets(a.piece, a.pos)[i][2] < 0

\* C10: get_piece_position returns Err, without a panic or a wrapped
\* coordinate, for every call where an offset goes below zero, and Ok for every
\* other call.
C10_ErrExactlyBelowZero ==
    ret.tag \in {"Ok", "Err", "Panic"}
        => IF BelowZero(arg) THEN ret.tag = "Err"
           ELSE ret.tag = "Ok" /\ \A i \in 1..4 : ret.cells[i].row >= 0 /\ ret.cells[i].col >= 0

\* C11: is_collision is true exactly when one of the 4 cells has a column >=
\* COLS or a row >= ROWS (a wrapped coordinate is such a value) or lies on an
\* occupied square; the call reads no square outside the board, so it does not
\* panic, and it leaves the board as it was.
C11_Step ==
    ret.tag = "Ok" /\ ret'.tag \in {"true", "false", "Panic"}
        => /\ ret'.tag # "Panic"
           /\ ret'.tag = "true" <=> Collides(board, [position |-> ret.cells])
           /\ ret'.tag = "true" <=> is_collision(board, [position |-> ret.cells])
           /\ board' = board

C11_CollisionIffOutsideOrOccupied == [][C11_Step]_vars

\* C11 witness: is_collision returned true for 4 cells inside the grid, so one
\* of them lies on an occupied square; the anchor itself is on an empty square
C11_Witness ==
    /\ ret.tag = "true"
    /\ \A i \in 1..4 : ret.cells[i].row \in 0..(ROWS - 1) /\ ret.cells[i].col \in 0..(COLS - 1)
    /\ ~Occupied(board, ret.cells[1].row, ret.cells[1].col)

\* the 4 cells of blk are the cells of the rotation table for its piece and
\* rotation index, with its first cell as anchor
OnTable(blk) ==
    /\ blk.rotation_pos \in Rotations
    /\ \A i \in 1..4 :
           /\ blk.position[i].row = blk.position[1].row + Offsets(blk.piece, blk.rotation_pos)[i][1]
           /\ blk.position[i].col = blk.position[1].col + Offsets(blk.piece, blk.rotation_pos)[i][2]

SameKind(a, b) == a.piece = b.piece /\ a.color = b.color

\* a step keeps the kind and the colour of the two blocks, unless it promotes
\* the next block (a Tick in Playing) or spawns (a Play key)
C12_Step ==
    /\ \/ SameKind(current_block', current_block)
       \/ state = "Playing" /\ event' = "Tick" /\ current_block' = next_block
       \/ state \in {"Menu", "EndScreen"} /\ event' = "Play"
    /\ \/ SameKind(next_block', next_block)
       \/ state = "Playing" /\ event' = "Tick" /\ current_block' = next_block
       \/ state = "EndScreen" /\ event' = "Play"

\* C12: in every reachable state the 4 cells of the current block and of the
\* next block are the rotation table's cells for the block's piece, rotation
\* index and first cell; no down, left, right, rotate or promotion gives other
\* cells, and the piece and the colour of a block do not change after its spawn.
C12_BlocksStayOnTable ==
    /\ [](OnTable(current_block) /\ OnTable(next_block))
    /\ [][C12_Step]_vars

\* C12 witness: after a promotion (the board holds a locked block) the current
\* block was rotated away from its spawn index, and is off the spawn column
\* and below the spawn row
C12_Witness ==
    /\ state = "Playing" /\ from = "Playing" /\ event = "Rotate"
    /\ board # EmptyBoard
    /\ \A g \in rng : current_block.rotation_pos # g[3]
    /\ current_block.position[1].col # COLS \div 2
    /\ current_block.position[1].row > SpawnRow

\* the set of the 4 cells
CellSet(cells) == {cells[i] : i \in 1..4}

\* C13: after 4 calls of Block::rotate in a row, with no board test, the block
\* has the rotation index and the set of 4 cells it had before the first of
\* them, for every piece and every position of the block.
C13_FourRotationsReturn ==
    ret.tag = "rotate" /\ ret.n = 4
        => /\ current_block.rotation_pos = ret.pos
           /\ CellSet(current_block.position) = CellSet(ret.cells)

\* C13 witness: 4 rotate calls in a row were made on a T block that is off the
\* spawn column with its anchor right of column 0, where each of the 4 calls
\* takes an arm of the table
C13_Witness ==
    /\ ret.tag = "rotate" /\ ret.n = 4
    /\ current_block.piece = "T"
    /\ current_block.position[1].col > 0
    /\ current_block.position[1].col # COLS \div 2
    /\ \A r \in Rotations :
           get_piece_position("T", r, current_block.position[1]).tag = "Ok"

\* C14: for each of the 7 pieces, each rotation index 0..3 and each anchor for
\* which get_piece_position returns Ok, the result is 4 pairwise distinct
\* coordinates, the first of which is the anchor.
C14_FourDistinctCellsAnchorFirst ==
    ret.tag = "Ok"
        => /\ DOMAIN ret.cells = 1..4
           /\ \A i, j \in 1..4 : i # j => ret.cells[i] # ret.cells[j]
           /\ ret.cells[1] = arg.coor

\* C14 witness: a call for the vertical I, the arm with the largest offset,
\* returned Ok with every cell at or above row 0
C14_Witness ==
    /\ ret.tag = "Ok" /\ arg.piece = "I" /\ arg.pos = 3
    /\ \E i \in 1..4 : ret.cells[i].row = arg.coor.row - 2
    /\ \A i \in 1..4 : ret.cells[i].row >= 0

\* C15: Block::new succeeds for each of the 7 pieces and 4 rotation indices at
\* the anchor (row 4, column COLS / 2): get_piece_position returns Ok there
\* with nothing below zero, the 4 cells are inside the grid, and a cell is on
\* row 4.
C15_Step ==
    ret.tag = "None"
        => /\ get_piece_position(arg.piece, arg.pos, arg.coor).tag = "Ok"
           /\ ret'.tag = "new"
           /\ current_block'.piece = arg.piece
           /\ current_block'.rotation_pos = arg.pos
           /\ \A i \in 1..4 :
                  /\ current_block'.position[i].row \in 0..(ROWS - 1)
                  /\ current_block'.position[i].col \in 0..(COLS - 1)
           /\ \E i \in 1..4 : current_block'.position[i].row = 4

C15_SpawnSucceedsInGrid == [][C15_Step]_vars

\* C15 witness: Block::new returned the horizontal I, the widest block, which
\* has a cell 2 columns right of the anchor
C15_Witness ==
    /\ ret.tag = "new" /\ arg.piece = "I" /\ arg.pos = 2
    /\ current_block.piece = "I"
    /\ \E i \in 1..4 : current_block.position[i].col = COLS \div 2 + 2

\* C16: the points never decrease when the consumer handles an event, except
\* for the reset to 0 by a Play key in EndScreen; they change otherwise only in
\* a Tick that locks the block, and then by the number of complete rows removed.
C16_Step ==
    LET reset == state = "EndScreen" /\ event' = "Play"
        locks == state = "Playing" /\ event' = "Tick" /\ Lands(board, current_block)
    IN  /\ reset => points' = 0
        /\ ~reset => points' >= points
        /\ ~reset /\ points' # points => locks
        /\ locks => points' =
               points + Cardinality(CompleteRows(Locked(board, current_block)))

C16_PointsGrowByRowsRemoved == [][C16_Step]_vars

\* C16 witness: a Tick locked a block, removed every occupied row with it and
\* promoted the next block, and 2 or more points are counted
C16_Witness ==
    /\ state = "Playing" /\ from = "Playing" /\ event = "Tick"
    /\ current_block.position[1].row = SpawnRow
    /\ board = EmptyBoard
    /\ points >= 2

\* C17: in every reachable state the board has ROWS rows of COLS squares and
\* no index into it was out of range (the consumer has not panicked), and
\* while the state is Playing the 4 cells of the current block are inside the
\* grid and on empty squares: the squares that a lock writes are in range and
\* were empty, and the squares that is_occupied reads are in range.
C17_BlockInRangeOnEmptySquares ==
    /\ consumer # "panicked"
    /\ Len(board) = ROWS
    /\ \A r \in 1..ROWS : Len(board[r]) = COLS
    /\ is_collision_result(board, next_block) # "Panic"
    /\ state = "Playing"
           => \A i \in 1..4 :
                  /\ current_block.position[i].row \in 0..(ROWS - 1)
                  /\ current_block.position[i].col \in 0..(COLS - 1)
                  /\ ~Occupied(board, current_block.position[i].row,
                               current_block.position[i].col)

\* C17 witness: a Tick locked a block and promoted the next one, which stands
\* at its spawn position right on top of the locked squares
C17_Witness ==
    /\ state = "Playing" /\ from = "Playing" /\ event = "Tick"
    /\ current_block.position[1].row = SpawnRow
    /\ board # EmptyBoard
    /\ \E i \in 1..4 :
           /\ current_block.position[i].row + 1 < ROWS
           /\ Occupied(board, current_block.position[i].row + 1,
                       current_block.position[i].col)

\* C18: from the Pause key handled in Playing to the next Pause key handled in
\* Pause (the state is Pause, and so is the flag) the ticker appends no Tick to
\* the channel; the flag is written with the mutex taken from free, and the
\* ticker tests the flag and sends while it holds the mutex.
C18_Step ==
    /\ state = "Pause" => flag = "Pause"
    /\ TickSent => flag # "Pause" /\ state # "Pause" /\ mutex = "ticker"
    /\ flag' # flag => mutex = "free" /\ mutex' = "free"

C18_NoTickSentWhilePaused == [][C18_Step]_vars

\* C18 witness: the game is paused and the ticker holds the mutex, about to
\* test the flag
C18_Witness ==
    state = "Pause" /\ flag = "Pause" /\ ticker = "locked" /\ mutex = "ticker"

\* get_piece_position returns Err for the rotation index after that of blk, at
\* the anchor of blk
NextRotationFails(blk) ==
    get_piece_position(blk.piece, (blk.rotation_pos + 1) % 4, blk.position[1]).tag = "Err"

\* C19: when Block::rotate is called and get_piece_position returns Err for the
\* next rotation index at the anchor, the rotation index and the 4 cells of the
\* block stay what they were, and the call returns without an error or a panic.
C19_Step ==
    /\ ret.tag \in BlockCalls
    /\ ret'.tag \in {"rotate", "Panic"}
    /\ NextRotationFails(current_block)
    => /\ ret'.tag = "rotate"
       /\ current_block'.rotation_pos = current_block.rotation_pos
       /\ current_block'.position = current_block.position
       /\ current_block' = current_block

C19_FailedRotationKeepsBlock == [][C19_Step]_vars

\* C19 witness: rotate was called on a J block with its anchor in column 0 in
\* rotation index 3, where index 0 needs a column left of the anchor
C19_Witness ==
    /\ ret.tag = "rotate"
    /\ current_block.piece = "J" /\ current_block.rotation_pos = 3
    /\ current_block.position[1].col = 0
    /\ NextRotationFails(current_block)

\* the clone of blk after the Block method for a movement key
Moved(key, blk) ==
    CASE key = "Down" -> BlockDown(blk)
      [] key = "Left" -> BlockLeft(blk)
      [] key = "Right" -> BlockRight(blk)

\* C20: for a Down, Left or Right key in Playing, the pre-check of the code
\* (can_block_move on the current cells, then the move) leaves the session that
\* the specified procedure leaves: clone the block, move the clone, test
\* is_collision on it, commit the clone or discard it; a Left key with a cell
\* in column 0 included.
C20_Step ==
    state = "Playing" /\ event' \in {"Down", "Left", "Right"}
        => LET clone == Moved(event', current_block)
           IN  /\ current_block' = IF is_collision(board, clone)
                                   THEN current_block ELSE clone
               /\ UNCHANGED <<board, next_block, points, state>>

C20_PreCheckEqualsCloneAndTest == [][C20_Step]_vars

\* C20 witness: a Left key was received for a block that has a cell in column
\* 0 and cannot have come from the right, where it would collide
C20_Witness ==
    /\ state = "Playing" /\ from = "Playing" /\ event = "Left"
    /\ \E i \in 1..4 : current_block.position[i].col = 0
    /\ Collides(board, Shift(current_block, 0, 1))

\* the step enters EndScreen
EntersEndScreen == state # "EndScreen" /\ state' = "EndScreen"

\* C21 for a state: rows 0 and 1 of the board are empty, is_end is false, the
\* anchors of the two blocks are on row 4 or under it and no cell of them is
\* above row 2
C21_RowsEmpty ==
    /\ ~OccupiedInRows(board, 0, 1)
    /\ ~is_end(board)
    /\ current_block.position[1].row >= 4
    /\ next_block.position[1].row >= 4
    /\ \A i \in 1..4 : current_block.position[i].row >= 2 /\ next_block.position[i].row >= 2

\* C21 for a step: EndScreen is entered only by a Tick in Playing after which
\* the next block collides with the board at its spawn position
C21_Step ==
    EntersEndScreen
        => /\ state = "Playing" /\ event' = "Tick"
           /\ ~is_end(board')
           /\ is_collision(board', next_block')
           /\ next_block' = next_block
           /\ next_block.position[1] = Coordinates(SpawnRow, COLS \div 2)

\* C21: in every reachable state rows 0 and 1 of the board are empty, since an
\* anchor is never above row 4 and no offset of the table reaches more than 2
\* rows above the anchor; so is_end is never true in play, and EndScreen is
\* entered only because the next block collides at its spawn position.
C21_TopRowsEmptyEndBySpawnCollision ==
    /\ []C21_RowsEmpty
    /\ [][C21_Step]_vars

\* C21 witness: a Tick ended the game with row 2 of the board occupied, the
\* highest row a locked cell can have, and with rows 0 and 1 empty
C21_Witness ==
    /\ state = "EndScreen" /\ from = "Playing" /\ event = "Tick"
    /\ OccupiedInRows(board, 2, 2)
    /\ ~OccupiedInRows(board, 0, 1)
    /\ is_collision(board, next_block)

\* C22 for a step: in Playing a Tick moves the anchor of the current block one
\* row down, or locks the block; a key never takes the anchor to a higher row
C22_Step ==
    state = "Playing"
        => /\ event' = "Tick"
                  => \/ /\ current_block'.position[1].row = current_block.position[1].row + 1
                        /\ current_block'.position[1].col = current_block.position[1].col
                        /\ board' = board
                     \/ /\ Lands(board, current_block)
                        /\ board' = Cleared(Locked(board, current_block))
           /\ event' \in KeyEvents
                  => current_block'.position[1].row >= current_block.position[1].row

\* C22 for a state: the Ticks handled for the current block without locking it
\* are no more than the rows its anchor went down from the spawn row, which
\* leaves fewer than ROWS of them: the block is locked, or the game ends, at
\* the ROWS-th Tick or before
C22_TicksBounded ==
    state = "Playing"
        => /\ TicksOf(ret) <= current_block.position[1].row - SpawnRow
           /\ current_block.position[1].row <= ROWS - 1
           /\ TicksOf(ret) + 1 <= ROWS

\* C22: while the state is Playing every Tick moves the anchor of the current
\* block down by one row or locks the block, and no key decreases the anchor
\* row; so each block is locked, or the game ends, after at most ROWS Ticks,
\* whatever Left, Right, Rotate and Down keys come between them.
C22_LockedWithinRowsTicks ==
    /\ []C22_TicksBounded
    /\ [][C22_Step]_vars

\* C22 witness: a Tick moved the block to the last row it can reach after keys
\* moved and rotated it, and every row it went down it went by a Tick
C22_Witness ==
    /\ state = "Playing" /\ from = "Playing" /\ event = "Tick"
    /\ TicksOf(ret) >= 1
    /\ TicksOf(ret) = current_block.position[1].row - SpawnRow
    /\ current_block.position[1].col # COLS \div 2
    /\ \A g \in rng : current_block.rotation_pos # g[3]
    /\ Lands(board, current_block)

\* the arm of state s takes state.lock() for the event e
TakesLock(s, e) ==
    \/ s \in {"Menu", "EndScreen"} /\ e = "Play"
    \/ s \in {"Playing", "Pause"} /\ e = "Pause"

\* the consumer is at rx.recv() with an event first in the channel for which
\* the arm of its state takes the lock
Pending ==
    consumer = "recv" /\ queue # << >> /\ TakesLock(state, Head(queue))

\* C23: the ticker and the consumer do not deadlock on the mutex.  The mutex
\* is held only by a ticker that is at its test and send; until the loop ends
\* by Quit the ticker releases the mutex and gets it again, over and over; and
\* a Play or Pause key that is first in the channel in a state whose arm takes
\* the lock has its transition completed: from Playing to Pause, from Menu,
\* Pause and EndScreen to Playing.
C23_NoDeadlockOnMutex ==
    /\ [](mutex = "ticker" <=> ticker = "locked")
    /\ []<>(ticker = "sleep" \/ consumer # "recv")
    /\ []<>(ticker = "locked" \/ consumer # "recv")
    /\ (Pending /\ state = "Playing") ~> (state = "Pause" \/ consumer # "recv")
    /\ (Pending /\ state # "Playing") ~> (state = "Playing" \/ consumer # "recv")

\* C23 witness: the Pause key is first in the channel in Playing while the
\* ticker holds the mutex, so the consumer's lock() has to wait for the ticker
C23_Witness ==
    /\ Pending /\ state = "Playing"
    /\ mutex = "ticker" /\ ticker = "locked" /\ flag = "Playing"

====
